---- MODULE Spec2Model ----
(***************************************************************************)
(* GhumaggerSnap: a state-machine model of the browser client               *)
(* (frontend/src: VideoPlayer, App, api, Dashboard, FileCard) and of the    *)
(* media-serving backend                                                   *)
(* it talks to (backend/main.py, described in spec.md).                     *)
(*                                                                         *)
(* The module holds several independent components, each with its own      *)
(* specification; a component's actions leave the other components'        *)
(* variables unchanged.                                                     *)
(*   SpecPlayer    VideoPlayer of FilePreview.jsx                           *)
(*   SpecApp       App.jsx / Login.jsx / api.js session handling            *)
(*   SpecThumb     thumbnail cache of the backend                           *)
(*   SpecServer    token validation, role check and path resolution        *)
(*   SpecTranscode compat-stream transcode jobs (with fairness)             *)
(*   SpecDash      Dashboard.jsx: listing, navigation, selection, preview   *)
(*   SpecCards     FileCard.jsx: the cards and rows of a listing            *)
(*   SpecUsers     the user menu and the UserModal of Dashboard.jsx         *)
(*   SpecListing   Dashboard.loadFiles: the getFiles calls and their answers  *)
(***************************************************************************)
EXTENDS Integers, Sequences, FiniteSets, TLC

\* ---------------------------------------------------------------- bounds
\* Probe requests (/files/video-info) that may be in flight at once.
MaxProbes == 2
\* Calls of the Dashboard through req() that may be in flight at once.
MaxApiCalls == 2
\* getThumbnail calls in one run.
MaxThumbReqs == 3
\* Segments of a client-supplied virtual path.
MaxSegs == 3
\* Paths in one bulk-download request.
MaxBulk == 2
\* Compat-stream requests the server holds at once.
MaxStreams == 3
\* Depth of the folder tree the Dashboard walks.
MaxDepth == 2
\* Listing requests (getFiles) that may be in flight at once.
MaxList == 2
\* createUser / deleteUser calls, and getUsers calls, that may be in flight at once.
MaxUserOps == 2

VARIABLES
  \* ----- VideoPlayer (FilePreview.jsx 12-147)
  mounted,        \* a VideoPlayer instance is rendered (the preview shows a video)
  file,           \* file.path of the previewed video, "none" when not mounted
  status,         \* useState('loading')
  bufferPct,      \* useState(0)
  useCompat,      \* useState(false)
  errorMsg,       \* useState('')
  triedCompat,    \* useRef(false)
  elErr,          \* the current <video key={src}> element has raised 'error'
  probes,         \* in-flight api.getVideoInfo calls of this instance: path -> count
  ev,             \* the event the last step handled (history)
  erroredFiles,   \* paths whose video element has raised a playback error (history)
  probedFiles,    \* paths a /files/video-info probe was issued for (history)
  compatFiles,    \* paths whose ?compat=1 URL was rendered as <video src> (history)
  probesThisFile, \* probes issued since the last reset of the player (history)
  \* ----- App / Login / api (App.jsx, Login.jsx, api.js)
  lsToken,        \* localStorage 'fs_token', "none" when absent
  lsUser,         \* localStorage 'fs_user', "none" when absent
  appUser,        \* App: useState(api.getUser())
  appLoading,     \* App: useState(true)
  meReq,          \* the startup api.getMe() has not settled
  loginReq,       \* an api.login() has not settled
  loginLoading,   \* Login: useState(false)
  loginError,     \* Login: useState('')
  apiCalls,       \* calls through req() issued by the Dashboard, not settled
  bulkCalls,      \* api.bulkDownload calls (a plain fetch), not settled
  aev,            \* the event the last step of the app handled (history)
  \* ----- backend: thumbnail cache (spec.md 4.3)
  thumbCache,     \* source key -> cached thumbnail bytes, "none" when not cached
  thumbJobs,      \* running generation jobs: records [id, key]
  thumbReq,       \* getThumbnail calls: id -> [st, key, job, resp]
  thumbRuns,      \* generation jobs started so far (job ids)
  \* ----- backend: one request through token validation, role check and path
  \* resolution (spec.md 4.1, 4.2, 4.4, 4.6)
  bulkPolicy,     \* what the archive streamer does with an entry it cannot include
  srvResp,        \* the last request handled and its answer
  \* ----- backend: compat streams (spec.md 4.5)
  streams,        \* compat-stream requests: slot -> [st, live, proc, end]
  \* ----- Dashboard (Dashboard.jsx 17-395)
  dashMounted,    \* the Dashboard is on the page (runs of the Dashboard alone)
  currentPath,    \* useState('/'), as a sequence of characters
  folders,        \* useState([]): the paths of the folder entries
  files,          \* useState([]): the file entries [path, file_type]
  dashLoading,    \* useState(true) of line 26
  search,         \* useState('')
  fileType,       \* useState('all')
  sort,           \* useState('name')
  view,           \* useState('grid')
  selected,       \* useState(new Set()): paths
  lastIdx,        \* useRef(null), -1 for null
  previewFile,    \* useState(null)
  listReqs,       \* getFiles calls of loadFiles that have not settled
  dev,            \* the event the last step of the Dashboard handled (history)
  \* ----- FileCard / FileRow (FileCard.jsx 75-199)
  thumbErr,       \* paths of the cards on the page whose thumbErr is true
  thumbFetched,   \* paths a /files/thumbnail request was issued for (history)
  \* ----- user menu and UserModal (Dashboard.jsx 40-42, 213-243, 400-432)
  userMenu,       \* useState(false) of line 42
  showUsers,      \* useState(false) of line 40: the UserModal is open
  userOps,        \* createUser / deleteUser calls that have not settled
  umListReqs,     \* getUsers calls that have not settled
  umLoaded,       \* the open modal lists a user it offers to delete
  umLast,         \* the last user-management request issued, and the role of the
                  \* user logged in when it went out (history)
  \* ----- the getFiles calls of loadFiles (Dashboard.jsx 48-58, api.js 54-61)
  pendingQ,       \* the queries of the calls that have not settled, in call order
  shownQuery,     \* the query whose answer folders and files hold (history)
  latestOutcome   \* "pending", "ok" or "fail": the most recent call (history)

playerVars == <<mounted, file, status, bufferPct, useCompat, errorMsg, triedCompat,
                elErr, probes, ev, erroredFiles, probedFiles, compatFiles,
                probesThisFile>>

appVars == <<lsToken, lsUser, appUser, appLoading, meReq, loginReq, loginLoading,
             loginError, apiCalls, bulkCalls, aev>>

thumbVars == <<thumbCache, thumbJobs, thumbReq, thumbRuns>>

srvVars == <<bulkPolicy, srvResp>>

xcVars == <<streams>>

dashVars == <<dashMounted, currentPath, folders, files, dashLoading, search, fileType,
              sort, view, selected, lastIdx, previewFile, listReqs, dev>>

cardVars == <<thumbErr, thumbFetched>>

umVars == <<userMenu, showUsers, userOps, umListReqs, umLoaded, umLast>>

reqVars == <<pendingQ, shownQuery, latestOutcome>>

vars == <<playerVars, appVars, thumbVars, srvVars, xcVars, dashVars, cardVars, umVars,
          reqVars>>

\* What each component's steps leave alone.
NotPlayer == <<appVars, thumbVars, srvVars, xcVars, dashVars, cardVars, umVars, reqVars>>
NotApp == <<playerVars, thumbVars, srvVars, xcVars, dashVars, cardVars, umVars, reqVars>>
NotThumb == <<playerVars, appVars, srvVars, xcVars, dashVars, cardVars, umVars, reqVars>>
NotSrv == <<playerVars, appVars, thumbVars, xcVars, dashVars, cardVars, umVars, reqVars>>
NotXc == <<playerVars, appVars, thumbVars, srvVars, dashVars, cardVars, umVars, reqVars>>
NotDash == <<playerVars, appVars, thumbVars, srvVars, xcVars, cardVars, umVars, reqVars>>
NotCards == <<playerVars, appVars, thumbVars, srvVars, xcVars, umVars, reqVars>>
NotUsers == <<playerVars, thumbVars, srvVars, xcVars, dashVars, cardVars, reqVars>>
NotListing == <<playerVars, appVars, thumbVars, srvVars, xcVars, cardVars, umVars>>

\* ================================================================ VideoPlayer

\* Video files of the current listing that the preview can show.
Videos == {"/a.mp4", "/b.mov"}
\* Codec names the probe can report.
Codecs == {"h264", "hevc"}
\* Values Math.round((end / duration) * 100) takes in the model.
Pcts == {50, 100}

NoFile == "none"

\* The three messages errorMsg takes, as sequences of their parts.
NoMsg == <<>>
GenericMsg == <<"Video could not be played. Try downloading it instead.">>
CodecMsg(codec) ==
  <<"Codec \"", codec, "\" not supported by browser. Install ffmpeg to enable transcoding.">>

\* Whether message m contains the part c.
Contains(m, c) == \E i \in 1..Len(m) : m[i] = c

\* What api.getVideoInfo can settle with: the server's JSON, or a rejection.
ProbeResults ==
  [kind : {"ok"}, needs_transcode : BOOLEAN, ffmpeg_available : BOOLEAN, codec : Codecs]
  \cup {[kind |-> "fail", needs_transcode |-> FALSE, ffmpeg_available |-> FALSE,
         codec |-> "h264"]}

NoEv == [type |-> "none", file |-> NoFile, kind |-> "none", needs_transcode |-> FALSE,
         ffmpeg_available |-> FALSE, codec |-> "none"]
EvOf(t, f) == [NoEv EXCEPT !.type = t, !.file = f]
EvProbe(f, r) == [type |-> "probe", file |-> f, kind |-> r.kind,
                  needs_transcode |-> r.needs_transcode,
                  ffmpeg_available |-> r.ffmpeg_available, codec |-> r.codec]

RECURSIVE SumOver(_, _)
SumOver(fn, S) ==
  IF S = {} THEN 0
  ELSE LET x == CHOOSE y \in S : TRUE IN fn[x] + SumOver(fn, S \ {x})

\* Probes of this instance that have not settled yet.
InFlight == SumOver(probes, Videos)

PlayerInit ==
  /\ mounted = FALSE
  /\ file = NoFile
  /\ status = "loading"
  /\ bufferPct = 0
  /\ useCompat = FALSE
  /\ errorMsg = NoMsg
  /\ triedCompat = FALSE
  /\ elErr = FALSE
  /\ probes = [f \in Videos |-> 0]
  /\ ev = NoEv
  /\ erroredFiles = {}
  /\ probedFiles = {}
  /\ compatFiles = {}
  /\ probesThisFile = 0

\* The reset effect of lines 90-96, which also runs on mount.
ResetPlayer ==
  /\ triedCompat' = FALSE
  /\ useCompat' = FALSE
  /\ status' = "loading"
  /\ bufferPct' = 0
  /\ errorMsg' = NoMsg
  /\ probesThisFile' = 0

\* FilePreview renders <VideoPlayer file={file}/> for a video (line 215): a new
\* instance, whose state starts at the useState defaults.
MountPlayer(f) ==
  /\ ~mounted
  /\ mounted' = TRUE
  /\ file' = f
  /\ ResetPlayer
  /\ elErr' = FALSE
  /\ probes' = [g \in Videos |-> 0]
  /\ ev' = EvOf("mount", f)
  /\ UNCHANGED <<erroredFiles, probedFiles, compatFiles>>

\* The preview moves from one video to another: the same instance gets a new
\* file prop (no key on <VideoPlayer>), the reset effect runs; calls of
\* handleError still awaiting their probe stay pending.
ChangeFile(f) ==
  /\ mounted
  /\ f # file
  /\ file' = f
  /\ ResetPlayer
  /\ elErr' = FALSE
  /\ ev' = EvOf("file", f)
  /\ UNCHANGED <<mounted, probes, erroredFiles, probedFiles, compatFiles>>

\* The preview closes or moves to a file that is no video: the instance is
\* unmounted, and what its pending handleError calls set afterwards is dropped.
UnmountPlayer ==
  /\ mounted
  /\ mounted' = FALSE
  /\ file' = NoFile
  /\ ResetPlayer
  /\ elErr' = FALSE
  /\ probes' = [g \in Videos |-> 0]
  /\ ev' = EvOf("unmount", NoFile)
  /\ UNCHANGED <<erroredFiles, probedFiles, compatFiles>>

\* onCanPlay / onPlaying / onLoadedData (lines 37, 38, 40).
MediaPlaying ==
  /\ mounted /\ ~elErr
  /\ status' = "playing"
  /\ ev' = EvOf("playing", file)
  /\ UNCHANGED <<mounted, file, bufferPct, useCompat, errorMsg, triedCompat, elErr,
                 probes, erroredFiles, probedFiles, compatFiles, probesThisFile>>

\* An onWaiting without its status check.
MediaWaiting_Unguarded ==
  /\ mounted /\ ~elErr
  /\ status' = "loading"
  /\ ev' = EvOf("waiting", file)
  /\ UNCHANGED <<mounted, file, bufferPct, useCompat, errorMsg, triedCompat, elErr,
                 probes, erroredFiles, probedFiles, compatFiles, probesThisFile>>

\* onWaiting (line 39).
MediaWaiting ==
  /\ mounted /\ ~elErr
  /\ status' = IF status # "transcoding" THEN "loading" ELSE status
  /\ ev' = EvOf("waiting", file)
  /\ UNCHANGED <<mounted, file, bufferPct, useCompat, errorMsg, triedCompat, elErr,
                 probes, erroredFiles, probedFiles, compatFiles, probesThisFile>>

\* onProgress (lines 31-36).
MediaProgress(p) ==
  /\ mounted /\ ~elErr
  /\ bufferPct' = p
  /\ ev' = EvOf("progress", file)
  /\ UNCHANGED <<mounted, file, status, useCompat, errorMsg, triedCompat, elErr,
                 probes, erroredFiles, probedFiles, compatFiles, probesThisFile>>

\* A handleError that forgets its guard.
AlreadyTried_Never == FALSE

\* The guard of handleError (line 59).
AlreadyTried == triedCompat

\* handleError up to its await (lines 58-68): the <video> element raises
\* 'error'; a media element raises it once per loaded source.
PlaybackError ==
  /\ mounted /\ ~elErr
  /\ elErr' = TRUE
  /\ erroredFiles' = erroredFiles \cup {file}
  /\ ev' = EvOf("error", file)
  /\ IF AlreadyTried
       THEN /\ status' = "error"
            /\ errorMsg' = GenericMsg
            /\ UNCHANGED <<triedCompat, probes, probedFiles, probesThisFile>>
       ELSE /\ InFlight < MaxProbes
            /\ triedCompat' = TRUE
            /\ probes' = [probes EXCEPT ![file] = @ + 1]
            /\ probedFiles' = probedFiles \cup {file}
            /\ probesThisFile' = probesThisFile + 1
            /\ UNCHANGED <<status, errorMsg>>
  /\ UNCHANGED <<mounted, file, bufferPct, useCompat, compatFiles>>

\* A handleError that falls back to the compat stream whatever the probe says.
ProbeDecision_AlwaysCompat(r) == "compat"

\* What handleError does with the settled probe (lines 69-86): "compat" for
\* the switch to the ?compat=1 source, "codec" for the codec error.
ProbeDecision(r) ==
  IF r.kind = "ok" /\ r.needs_transcode /\ r.ffmpeg_available THEN "compat"
  ELSE IF r.kind = "ok" /\ r.needs_transcode /\ ~r.ffmpeg_available THEN "codec"
  ELSE "compat"

\* handleError after its await (lines 68-86), for the probe of path f issued
\* by this instance; it sets the state of the instance as it is now.
ProbeSettled(f, r) ==
  /\ mounted
  /\ probes[f] > 0
  /\ probes' = [probes EXCEPT ![f] = @ - 1]
  /\ ev' = EvProbe(f, r)
  /\ IF ProbeDecision(r) = "compat"
       THEN /\ status' = "transcoding"
            /\ bufferPct' = 0
            /\ useCompat' = TRUE
            /\ compatFiles' = compatFiles \cup {file}
            \* src changes when useCompat does: key={src} mounts a new element
            /\ elErr' = IF useCompat THEN elErr ELSE FALSE
            /\ UNCHANGED errorMsg
       ELSE /\ status' = "error"
            /\ errorMsg' = CodecMsg(r.codec)
            /\ UNCHANGED <<bufferPct, useCompat, compatFiles, elErr>>
  /\ UNCHANGED <<mounted, file, triedCompat, erroredFiles, probedFiles, probesThisFile>>

PlayerNext ==
  \/ \E f \in Videos : MountPlayer(f) /\ UNCHANGED NotPlayer
  \/ \E f \in Videos : ChangeFile(f) /\ UNCHANGED NotPlayer
  \/ UnmountPlayer /\ UNCHANGED NotPlayer
  \/ MediaPlaying /\ UNCHANGED NotPlayer
  \/ MediaWaiting /\ UNCHANGED NotPlayer
  \/ \E p \in Pcts : MediaProgress(p) /\ UNCHANGED NotPlayer
  \/ PlaybackError /\ UNCHANGED NotPlayer
  \/ \E f \in Videos, r \in ProbeResults : ProbeSettled(f, r) /\ UNCHANGED NotPlayer

\* ================================================================ App / Login / api

None == "none"
\* Session tokens the server issues, and the users it knows.
Tokens == {"t1", "t2"}
Users == {"admin", "viewer"}

NoAppEv == [type |-> "none", token |-> None, user |-> None]
AppEv(t) == [NoAppEv EXCEPT !.type = t]

\* What the App renders (App.jsx 32-45).
ScreenOf(loading, user) ==
  IF loading THEN "spinner" ELSE IF user # None THEN "dashboard" ELSE "login"
Screen == ScreenOf(appLoading, appUser)

\* A clearAuth that removes the token alone.
ClearAuth_TokenOnly == [token |-> None, user |-> lsUser]

\* clearAuth (api.js 6): the storage it leaves.
ClearAuth == [token |-> None, user |-> None]

\* A login that stores the token alone.
StoreLogin_TokenOnly(t, u) == [token |-> t, user |-> lsUser]

\* setToken(data.access_token); setUser(data.user) (api.js 39-40).
StoreLogin(t, u) == [token |-> t, user |-> u]

\* An App that does not start in the loading state.
InitialLoading_False == FALSE

\* useState(true) of App.jsx 12.
InitialLoading == TRUE

\* The App after its first render and mount effect (App.jsx 11-23) over the
\* storage st: user = api.getUser(), and getMe is called when a token is stored.
\* A page load drops every pending call and every component state.
Boot(st) ==
  /\ lsToken' = st.token
  /\ lsUser' = st.user
  /\ appUser' = st.user
  /\ appLoading' = IF st.token # None THEN InitialLoading ELSE FALSE
  /\ meReq' = (st.token # None)
  /\ loginReq' = FALSE
  /\ loginLoading' = FALSE
  /\ loginError' = ""
  /\ apiCalls' = 0
  /\ bulkCalls' = 0

\* The App at page load over the storage st.
AppStart(st) ==
  /\ lsToken = st.token
  /\ lsUser = st.user
  /\ appUser = st.user
  /\ appLoading = (IF st.token # None THEN InitialLoading ELSE FALSE)
  /\ meReq = (st.token # None)
  /\ loginReq = FALSE
  /\ loginLoading = FALSE
  /\ loginError = ""
  /\ apiCalls = 0
  /\ bulkCalls = 0
  /\ aev = NoAppEv

\* The storage a page load can find: empty, or what a login left.
AppInit ==
  \E st \in {[token |-> None, user |-> None]}
             \cup [token : Tokens, user : Users] : AppStart(st)

\* The app of a browser that holds no session (the other components' runs).
AppIdle == AppStart([token |-> None, user |-> None])

\* The user reloads the page.
Reload ==
  /\ Boot([token |-> lsToken, user |-> lsUser])
  /\ aev' = AppEv("reload")

\* getMe resolves (App.jsx 17): setUser(u); api.setUser(u); setLoading(false).
MeOk(u) ==
  /\ meReq
  /\ meReq' = FALSE
  /\ appUser' = u
  /\ lsUser' = u
  /\ appLoading' = FALSE
  /\ aev' = [AppEv("meOk") EXCEPT !.user = u]
  /\ UNCHANGED <<lsToken, loginReq, loginLoading, loginError, apiCalls, bulkCalls>>

\* getMe is answered 401: req clears the storage and reloads the page
\* (api.js 19-23); the catch of App.jsx 18 clears it again.
Me401 ==
  /\ meReq
  /\ Boot(ClearAuth)
  /\ aev' = AppEv("me401")

\* getMe fails otherwise (network, 5xx): App.jsx 18-19.
MeFail ==
  /\ meReq
  /\ meReq' = FALSE
  /\ lsToken' = ClearAuth.token
  /\ lsUser' = ClearAuth.user
  /\ appUser' = None
  /\ appLoading' = FALSE
  /\ aev' = AppEv("meFail")
  /\ UNCHANGED <<loginReq, loginLoading, loginError, apiCalls, bulkCalls>>

\* Login.submit up to its await (Login.jsx 13-17); the button is disabled
\* while loading (line 77).
LoginSubmit ==
  /\ Screen = "login"
  /\ ~loginLoading
  /\ loginError' = ""
  /\ loginLoading' = TRUE
  /\ loginReq' = TRUE
  /\ aev' = AppEv("submit")
  /\ UNCHANGED <<lsToken, lsUser, appUser, appLoading, meReq, apiCalls, bulkCalls>>

\* The login is answered with {access_token, user}: api.js 38-41, App.jsx 27,
\* Login.jsx 19.
LoginOk(t, u) ==
  /\ loginReq
  /\ loginReq' = FALSE
  /\ lsToken' = StoreLogin(t, u).token
  /\ lsUser' = StoreLogin(t, u).user
  /\ appUser' = u
  /\ loginLoading' = FALSE
  /\ aev' = [type |-> "loginOk", token |-> t, user |-> u]
  /\ UNCHANGED <<appLoading, meReq, loginError, apiCalls, bulkCalls>>

\* The login is answered 401: req clears the storage and reloads the page.
Login401 ==
  /\ loginReq
  /\ Boot(ClearAuth)
  /\ aev' = AppEv("login401")

\* The login fails otherwise: api.js 24-27, Login.jsx 18-19.
LoginFail ==
  /\ loginReq
  /\ loginReq' = FALSE
  /\ loginError' = "Request failed"
  /\ loginLoading' = FALSE
  /\ aev' = AppEv("loginFail")
  /\ UNCHANGED <<lsToken, lsUser, appUser, appLoading, meReq, apiCalls, bulkCalls>>

\* Sign Out (App.jsx 30): api.logout(); setUser(null).
Logout ==
  /\ Screen = "dashboard"
  /\ lsToken' = ClearAuth.token
  /\ lsUser' = ClearAuth.user
  /\ appUser' = None
  /\ aev' = AppEv("logout")
  /\ UNCHANGED <<appLoading, meReq, loginReq, loginLoading, loginError, apiCalls, bulkCalls>>

\* The Dashboard calls the server through req (getFiles, getStats, getUsers,
\* getVideoInfo, ...).
ApiCall ==
  /\ Screen = "dashboard"
  /\ apiCalls < MaxApiCalls
  /\ apiCalls' = apiCalls + 1
  /\ aev' = AppEv("call")
  /\ UNCHANGED <<lsToken, lsUser, appUser, appLoading, meReq, loginReq, loginLoading,
                 loginError, bulkCalls>>

\* Such a call settles without a 401 (api.js 24-28).
ApiSettled ==
  /\ apiCalls > 0
  /\ apiCalls' = apiCalls - 1
  /\ aev' = AppEv("settled")
  /\ UNCHANGED <<lsToken, lsUser, appUser, appLoading, meReq, loginReq, loginLoading,
                 loginError, bulkCalls>>

\* Such a call is answered 401 (api.js 19-23).
Api401 ==
  /\ apiCalls > 0
  /\ Boot(ClearAuth)
  /\ aev' = AppEv("api401")

\* Dashboard.bulkDownload (Dashboard.jsx 104-110) calls api.bulkDownload, which
\* sends the token with a plain fetch (api.js 87-92).
BulkCall ==
  /\ Screen = "dashboard"
  /\ bulkCalls < MaxApiCalls
  /\ bulkCalls' = bulkCalls + 1
  /\ aev' = AppEv("bulk")
  /\ UNCHANGED <<lsToken, lsUser, appUser, appLoading, meReq, loginReq, loginLoading,
                 loginError, apiCalls>>

\* api.bulkDownload settles (api.js 93-99): with a zip, or by throwing on any
\* status that is not ok, 401 included; the storage is not touched.
BulkSettled(code) ==
  /\ bulkCalls > 0
  /\ bulkCalls' = bulkCalls - 1
  /\ aev' = AppEv(code)
  /\ UNCHANGED <<lsToken, lsUser, appUser, appLoading, meReq, loginReq, loginLoading,
                 loginError, apiCalls>>

AppNext ==
  \/ Reload /\ UNCHANGED NotApp
  \/ \E u \in Users : MeOk(u) /\ UNCHANGED NotApp
  \/ Me401 /\ UNCHANGED NotApp
  \/ MeFail /\ UNCHANGED NotApp
  \/ LoginSubmit /\ UNCHANGED NotApp
  \/ \E t \in Tokens, u \in Users : LoginOk(t, u) /\ UNCHANGED NotApp
  \/ Login401 /\ UNCHANGED NotApp
  \/ LoginFail /\ UNCHANGED NotApp
  \/ Logout /\ UNCHANGED NotApp
  \/ ApiCall /\ UNCHANGED NotApp
  \/ ApiSettled /\ UNCHANGED NotApp
  \/ Api401 /\ UNCHANGED NotApp
  \/ BulkCall /\ UNCHANGED NotApp
  \/ \E code \in {"bulkOk", "bulk401", "bulkFail"} : BulkSettled(code) /\ UNCHANGED NotApp

\* ================================================================ backend: thumbnail cache

\* Source keys (virtualPath, sourceMtime, sourceSize).
ThumbKeys == {"k1", "k2"}
ThumbReqIds == 1..MaxThumbReqs

\* The encoded thumbnail of source key k.
ThumbBytes(k) == <<"thumb", k>>
ThumbnailUnavailable == <<"ThumbnailUnavailable">>

NewReq == [st |-> "new", key |-> "none", job |-> 0, resp |-> <<>>]

ThumbInit ==
  /\ thumbCache = [k \in ThumbKeys |-> "none"]
  /\ thumbJobs = {}
  /\ thumbReq = [r \in ThumbReqIds |-> NewReq]
  /\ thumbRuns = 0

\* A cache that never joins a running generation.
RunningJobs_None(k) == {}

\* The generation jobs running for source key k.
RunningJobs(k) == {j \in thumbJobs : j.key = k}

\* getThumbnail(k), call r: a cache hit answers at once; otherwise the call
\* waits on the generation running for k, starting one when there is none.
GetThumbnail(r, k) ==
  /\ thumbReq[r].st = "new"
  /\ IF thumbCache[k] # "none"
       THEN /\ thumbReq' = [thumbReq EXCEPT ![r] =
                 [st |-> "done", key |-> k, job |-> 0, resp |-> thumbCache[k]]]
            /\ UNCHANGED <<thumbJobs, thumbRuns>>
       ELSE IF RunningJobs(k) # {}
         THEN /\ thumbReq' = [thumbReq EXCEPT ![r] =
                   [st |-> "waiting", key |-> k,
                    job |-> (CHOOSE j \in RunningJobs(k) : TRUE).id, resp |-> <<>>]]
              /\ UNCHANGED <<thumbJobs, thumbRuns>>
         ELSE /\ thumbRuns' = thumbRuns + 1
              /\ thumbJobs' = thumbJobs \cup {[id |-> thumbRuns + 1, key |-> k]}
              /\ thumbReq' = [thumbReq EXCEPT ![r] =
                   [st |-> "waiting", key |-> k, job |-> thumbRuns + 1, resp |-> <<>>]]
  /\ UNCHANGED thumbCache

\* Generation job j ends, with the thumbnail or with ThumbnailUnavailable:
\* every call waiting on it gets that result, and a thumbnail is cached.
FinishJob(j, ok) ==
  /\ j \in thumbJobs
  /\ LET res == IF ok THEN ThumbBytes(j.key) ELSE ThumbnailUnavailable IN
       /\ thumbReq' = [r \in ThumbReqIds |->
            IF thumbReq[r].st = "waiting" /\ thumbReq[r].job = j.id
              THEN [thumbReq[r] EXCEPT !.st = "done", !.resp = res]
              ELSE thumbReq[r]]
       /\ thumbCache' = IF ok THEN [thumbCache EXCEPT ![j.key] = res] ELSE thumbCache
  /\ thumbJobs' = thumbJobs \ {j}
  /\ UNCHANGED thumbRuns

ThumbNext ==
  \/ \E r \in ThumbReqIds, k \in ThumbKeys : GetThumbnail(r, k) /\ UNCHANGED NotThumb
  \/ \E j \in thumbJobs, ok \in BOOLEAN : FinishJob(j, ok) /\ UNCHANGED NotThumb

\* ================================================================ backend: requests

Roles == {"viewer", "editor", "admin"}
\* viewer < editor < admin.
RoleRank == [viewer |-> 1, editor |-> 2, admin |-> 3]

\* Bearer tokens a request can carry: none, one that does not verify, and
\* signed ones of each role, expired or not.
SrvTokens ==
  {[kind |-> "missing", role |-> "none"], [kind |-> "malformed", role |-> "none"]}
  \cup [kind : {"expired", "valid"}, role : Roles]

\* A validation that does not look at the expiry.
Validate_IgnoresExpiry(tok) ==
  IF tok.kind \in {"valid", "expired"} THEN [ok |-> TRUE, role |-> tok.role]
  ELSE [ok |-> FALSE, role |-> "none"]

\* validate(token): signature and expiry.
Validate(tok) ==
  IF tok.kind = "valid" THEN [ok |-> TRUE, role |-> tok.role]
  ELSE [ok |-> FALSE, role |-> "none"]

\* requireRole(role, minimum).
RequireRole(role, minimum) == RoleRank[role] >= RoleRank[minimum]

\* Endpoints that take one virtual path, the one that takes several, and two
\* that take none.
DirEndpoints == {"list", "stats"}
FileEndpoints == {"preview", "thumbnail", "download", "video-info"}
PathEndpoints == DirEndpoints \cup FileEndpoints
BulkEndpoint == "bulk-download"
Endpoints == PathEndpoints \cup {BulkEndpoint, "delete-file", "create-user"}

\* The minimum role each endpoint declares.
MinRole == [e \in Endpoints |->
  IF e = "create-user" THEN "admin" ELSE IF e = "delete-file" THEN "editor" ELSE "viewer"]

\* The real filesystem, paths as sequences of names from its root.
MediaRoot == <<"media">>
Dirs == {<<>>, <<"media">>, <<"media", "sub">>, <<"etc">>}
RegFiles == {<<"media", "a.jpg">>, <<"media", "sub", "b.mp4">>, <<"etc", "passwd">>}
\* media/lnk is a symlink to /etc.
LinkAt == <<"media", "lnk">>
LinkTo == <<"etc">>

Segs == {"..", "sub", "a.jpg", "b.mp4", "lnk", "passwd", "media", "etc"}
RECURSIVE SeqsUpTo(_, _)
SeqsUpTo(S, n) ==
  IF n = 0 THEN {<<>>}
  ELSE LET shorter == SeqsUpTo(S, n - 1) IN
       shorter \cup {Append(q, x) : q \in shorter, x \in S}
VirtualPaths == SeqsUpTo(Segs, MaxSegs)

Parent(p) == IF p = <<>> THEN <<>> ELSE SubSeq(p, 1, Len(p) - 1)

\* What the filesystem does with one more name: '..' is the parent, a symlink
\* is followed.
RealStep(cur, seg) ==
  IF seg = ".." THEN Parent(cur)
  ELSE IF Append(cur, seg) = LinkAt THEN LinkTo
  ELSE Append(cur, seg)

\* The real path the filesystem reaches from cur along path.
RECURSIVE RealFrom(_, _)
RealFrom(cur, path) ==
  IF path = <<>> THEN cur ELSE RealFrom(RealStep(cur, Head(path)), Tail(path))

\* The real path opening MediaRoot joined with vp reaches.
RealTarget(vp) == RealFrom(MediaRoot, vp)

\* A canonicalization that folds '..' but does not follow symlinks.
Step_NoSymlinks(cur, seg) ==
  IF seg = ".." THEN Parent(cur) ELSE Append(cur, seg)

\* One step of the server's canonicalization: '.', '..' and symlinks are
\* resolved.
Step(cur, seg) == RealStep(cur, seg)

\* The server's canonical path of MediaRoot joined with virtual path vp.
RECURSIVE ResolveFrom(_, _)
ResolveFrom(cur, vp) ==
  IF vp = <<>> THEN cur ELSE ResolveFrom(Step(cur, Head(vp)), Tail(vp))
Resolve(vp) == ResolveFrom(MediaRoot, vp)

\* The containment check: p is MediaRoot or a descendant of it.
Contained(p) ==
  /\ Len(p) >= Len(MediaRoot)
  /\ SubSeq(p, 1, Len(MediaRoot)) = MediaRoot

Answer(e, tok, paths, st, body) ==
  [endpoint |-> e, token |-> tok, paths |-> paths, status |-> st, body |-> body]

\* What a path endpoint answers for virtual path vp: the status and the real
\* paths whose contents (bytes, listing, statistics, codec) the answer carries.
PathAnswer(e, vp) ==
  LET rp == Resolve(vp)
      \* what opening the checked path reaches
      opened == RealFrom(<<>>, rp)
  IN
    IF ~Contained(rp) THEN [status |-> "Forbidden", body |-> {}]
    ELSE IF e \in DirEndpoints /\ opened \in Dirs THEN [status |-> "OK", body |-> {opened}]
    ELSE IF e \in FileEndpoints /\ opened \in RegFiles THEN [status |-> "OK", body |-> {opened}]
    ELSE [status |-> "NotFound", body |-> {}]

\* What bulk-download answers for the entries ps: under "fail" one entry that
\* cannot be included fails the batch, under "skip" it is left out.
BulkAnswer(ps) ==
  LET one == [i \in 1..Len(ps) |-> PathAnswer("download", ps[i])]
      bad == {i \in 1..Len(ps) : one[i].status # "OK"}
      good == UNION {one[i].body : i \in (1..Len(ps)) \ bad}
  IN IF bad # {} /\ bulkPolicy = "fail"
       THEN [status |-> one[CHOOSE i \in bad : \A k \in bad : i <= k].status, body |-> {}]
       ELSE [status |-> "OK", body |-> good]

\* The entries a bulk-download is tried with.
BulkPaths == {<<"a.jpg">>, <<"sub", "b.mp4">>, <<"sub", "a.jpg">>,
              <<"..", "etc", "passwd">>, <<"lnk", "passwd">>}
BulkLists == SeqsUpTo(BulkPaths, MaxBulk) \ {<<>>}

NoAnswer == Answer("none", [kind |-> "missing", role |-> "none"], <<>>, "none", {})

\* The deployment's documented policy is one of the two.
BulkPolicies == {"fail", "skip"}

SrvInit ==
  /\ bulkPolicy \in BulkPolicies
  /\ srvResp = NoAnswer

\* The server of the other components' runs.
SrvIdle ==
  /\ bulkPolicy = "fail"
  /\ srvResp = NoAnswer

\* A request to endpoint e with token tok and the virtual paths ps: the token
\* is validated, then the role checked, then the paths resolved.
Handle(e, tok, ps) ==
  LET v == Validate(tok) IN
    /\ srvResp' =
         IF ~v.ok THEN Answer(e, tok, ps, "Unauthorized", {})
         ELSE IF ~RequireRole(v.role, MinRole[e]) THEN Answer(e, tok, ps, "Forbidden", {})
         ELSE IF e \in PathEndpoints
           THEN Answer(e, tok, ps, PathAnswer(e, ps[1]).status, PathAnswer(e, ps[1]).body)
         ELSE IF e = BulkEndpoint
           THEN Answer(e, tok, ps, BulkAnswer(ps).status, BulkAnswer(ps).body)
         ELSE Answer(e, tok, ps, "OK", {})
    /\ UNCHANGED bulkPolicy

PathRequest(e, tok, vp) == Handle(e, tok, <<vp>>)
BulkRequest(tok, ps) == Handle(BulkEndpoint, tok, ps)
RoleRequest(e, tok) == Handle(e, tok, <<>>)

\* The answer is sent; requests share no state.
AnswerSent ==
  /\ srvResp # NoAnswer
  /\ srvResp' = NoAnswer
  /\ UNCHANGED bulkPolicy

\* The model follows one request at a time.
Idle == srvResp = NoAnswer

SrvNext ==
  \/ AnswerSent /\ UNCHANGED NotSrv
  \/ Idle /\ \E e \in PathEndpoints, tok \in SrvTokens, vp \in VirtualPaths :
               PathRequest(e, tok, vp) /\ UNCHANGED NotSrv
  \/ Idle /\ \E tok \in SrvTokens, ps \in BulkLists : BulkRequest(tok, ps) /\ UNCHANGED NotSrv
  \/ Idle /\ \E e \in {"delete-file", "create-user"}, tok \in SrvTokens : RoleRequest(e, tok) /\ UNCHANGED NotSrv

\* ================================================================ backend: compat streams

Slots == 1..MaxStreams
IdleStream == [st |-> "idle", live |-> FALSE, proc |-> FALSE, end |-> "none"]

XcInit == streams = [s \in Slots |-> IdleStream]

\* GET /files/preview?compat=1 arrives: the job starts probing, its response open.
CompatRequest(s) ==
  /\ streams[s].st = "idle"
  /\ streams' = [streams EXCEPT ![s] = [IdleStream EXCEPT !.st = "probing", !.live = TRUE]]

\* The probe ends: with a transcoder the transcode process is spawned, without
\* one the job is rejected (TranscodeUnavailable); a job whose client is gone
\* spawns nothing.
ProbeDone(s, available) ==
  /\ streams[s].st = "probing"
  /\ streams' = [streams EXCEPT ![s] =
       IF ~streams[s].live THEN [@ EXCEPT !.st = "failed", !.end = "cancelled"]
       ELSE IF available THEN [@ EXCEPT !.st = "transcoding", !.proc = TRUE]
       ELSE [@ EXCEPT !.st = "rejected", !.live = FALSE, !.end = "unavailable"]]

\* The transcode process writes its last byte and exits; the response ends.
TranscodeDone(s) ==
  /\ streams[s].st = "transcoding" /\ streams[s].proc /\ streams[s].live
  /\ streams' = [streams EXCEPT ![s] =
       [@ EXCEPT !.st = "ready", !.proc = FALSE, !.live = FALSE, !.end = "done"]]

\* The transcode process dies on its input; the response is aborted.
TranscodeFails(s) ==
  /\ streams[s].st = "transcoding" /\ streams[s].proc /\ streams[s].live
  /\ streams' = [streams EXCEPT ![s] =
       [@ EXCEPT !.st = "failed", !.proc = FALSE, !.live = FALSE, !.end = "crashed"]]

\* The client closes the connection of a stream in progress.
ClientDisconnect(s) ==
  /\ streams[s].st \in {"probing", "transcoding"} /\ streams[s].live
  /\ streams' = [streams EXCEPT ![s] = [@ EXCEPT !.live = FALSE]]

\* A disconnect handler that notes the disconnect and leaves the process alone.
Killed_LeftRunning(job) == [job EXCEPT !.end = "killed"]

\* The job after the server has killed its transcode process.
Killed(job) == [job EXCEPT !.st = "failed", !.proc = FALSE, !.end = "killed"]

\* The server notices the closed connection and kills the transcode process.
KillOnDisconnect(s) ==
  /\ streams[s].st = "transcoding" /\ streams[s].proc /\ ~streams[s].live
  /\ streams' = [streams EXCEPT ![s] = Killed(@)]

\* A finished job is forgotten (a TranscodeJob lives for one request).
ReleaseJob(s) ==
  /\ streams[s].st \in {"ready", "failed", "rejected"} /\ ~streams[s].proc
  /\ streams' = [streams EXCEPT ![s] = IdleStream]

XcNext ==
  \/ \E s \in Slots : CompatRequest(s) /\ UNCHANGED NotXc
  \/ \E s \in Slots, available \in BOOLEAN : ProbeDone(s, available) /\ UNCHANGED NotXc
  \/ \E s \in Slots : TranscodeDone(s) /\ UNCHANGED NotXc
  \/ \E s \in Slots : TranscodeFails(s) /\ UNCHANGED NotXc
  \/ \E s \in Slots : ClientDisconnect(s) /\ UNCHANGED NotXc
  \/ \E s \in Slots : KillOnDisconnect(s) /\ UNCHANGED NotXc
  \/ \E s \in Slots : ReleaseJob(s) /\ UNCHANGED NotXc

\* ================================================================ Dashboard

\* A path is kept as the sequence of its characters, so that split, slice and
\* join act on it as they do in the browser.
Root == <<"/">>
\* Folder names of the media tree.
Names == {<<"b", "c">>}

\* Array.prototype.join('/') over an array of strings (Dashboard.jsx 76, 125).
RECURSIVE Join(_)
Join(parts) ==
  IF Len(parts) = 0 THEN <<>>
  ELSE IF Len(parts) = 1 THEN parts[1]
  ELSE parts[1] \o <<"/">> \o Join(Tail(parts))

\* String.prototype.split('/') (Dashboard.jsx 74, 125).
RECURSIVE Split(_)
Split(s) ==
  IF \A i \in 1..Len(s) : s[i] # "/" THEN <<s>>
  ELSE LET i == CHOOSE k \in 1..Len(s) : s[k] = "/" /\ \A m \in 1..(k - 1) : s[m] # "/"
       IN <<SubSeq(s, 1, i - 1)>> \o Split(SubSeq(s, i + 1, Len(s)))

\* The paths the server names in its folder entries: '/' and '/x/y' (spec.md 3).
RECURSIVE PathsOfDepth(_)
PathsOfDepth(n) ==
  IF n = 0 THEN {<<>>}
  ELSE {p \o <<"/">> \o nm : p \in PathsOfDepth(n - 1), nm \in Names}
FolderPaths == UNION {PathsOfDepth(n) : n \in 1..MaxDepth}
Depth(p) == IF p = Root THEN 0 ELSE Cardinality({i \in 1..Len(p) : p[i] = "/"})

\* A parent computed without the "|| '/'" fallback.
ParentPath_NoRootFallback(p) ==
  LET parts == Split(p) IN Join(SubSeq(parts, 1, Len(parts) - 1))

\* currentPath.split('/').slice(0, -1).join('/') || '/' (Dashboard.jsx 125).
ParentPath(p) ==
  LET parts == Split(p)
      joined == Join(SubSeq(parts, 1, Len(parts) - 1))
  IN IF joined = <<>> THEN Root ELSE joined

\* The breadcrumb targets (Dashboard.jsx 70-78): '/' and every prefix of the
\* non-empty segments of the current path.
Breadcrumbs(p) ==
  IF p = Root THEN {Root}
  ELSE LET arr == SelectSeq(Split(p), LAMBDA part : part # <<>>)
       IN {Root} \cup {<<"/">> \o Join(SubSeq(arr, 1, i)) : i \in 1..Len(arr)}

\* File entries of a listing: {path, file_type} (spec.md 3, FileEntry).
FileA == [path |-> "/a.jpg", file_type |-> "image"]
FileB == [path |-> "/b.mp4", file_type |-> "video"]
FileC == [path |-> "/c.txt", file_type |-> "other"]
FileD == [path |-> "/d.png", file_type |-> "image"]

\* The file lists the server answers a listing with.
FileLists == {<<>>, <<FileA>>, <<FileA, FileB, FileC>>}
\* The folder lists the server answers with for a listing of path p.
FolderLists(p) ==
  IF Depth(p) >= MaxDepth THEN {<<>>}
  ELSE LET base == IF p = Root THEN <<>> ELSE p
       IN {<<>>} \cup {<<base \o <<"/">> \o nm>> : nm \in Names}

Searches == {"", "x"}
FileTypes == {"all", "image"}
Sorts == {"name", "size"}
Views == {"grid", "list"}
\* useRef(null) of lastIdx (Dashboard.jsx 34): null is kept as -1.
NoIdx == -1
\* useState(null) of previewFile (Dashboard.jsx 37).
NoPreview == [path |-> "null", file_type |-> "null"]
\* previewFile after setPreviewFile(files[i]) with i outside the array.
Undefined == [path |-> "undefined", file_type |-> "undefined"]

\* The event the last step of the Dashboard handled (history): the kind of the
\* event ("navigate" for a call of navigateTo from a click, "closePreview" for
\* onClose from a click, the key for a shortcut) and, for an Escape, whether
\* files were selected when it came.
NoDashEv == [type |-> "other", pre |-> 0]
DashEv(t) == [NoDashEv EXCEPT !.type = t]

\* files[i] with the 0-based index of the source.
FileAt(i) == files[i + 1]
FilePaths == {files[i].path : i \in 1..Len(files)}

\* The Dashboard after its first render and its mount effects
\* (Dashboard.jsx 21-62): the first listing request is out.
DashInit ==
  /\ dashMounted = TRUE
  /\ currentPath = Root
  /\ folders = <<>>
  /\ files = <<>>
  /\ dashLoading = TRUE
  /\ search = ""
  /\ fileType = "all"
  /\ sort = "name"
  /\ view = "grid"
  /\ selected = {}
  /\ lastIdx = NoIdx
  /\ previewFile = NoPreview
  /\ listReqs = 1
  /\ dev = NoDashEv

\* The page is loaded again and the Dashboard mounts for a logged-in user.
DashMount ==
  /\ ~dashMounted
  /\ dashMounted' = TRUE
  /\ currentPath' = Root
  /\ folders' = <<>>
  /\ files' = <<>>
  /\ dashLoading' = TRUE
  /\ search' = ""
  /\ fileType' = "all"
  /\ sort' = "name"
  /\ view' = "grid"
  /\ selected' = {}
  /\ lastIdx' = NoIdx
  /\ previewFile' = NoPreview
  /\ listReqs' = 1
  /\ dev' = NoDashEv

\* The main area shows the cards or rows (Dashboard.jsx 289-303): not the
\* spinner, not the empty-folder message.
IsEmpty == Len(folders) = 0 /\ Len(files) = 0
ListingShown == dashMounted /\ ~dashLoading /\ ~IsEmpty
\* The preview overlay covers the page: the mouse reaches only the overlay.
PageReachable == dashMounted /\ previewFile = NoPreview

\* loadFiles up to its await (Dashboard.jsx 48-51); the effect of line 58 calls
\* it whenever currentPath, search, fileType or sort changed.
LoadFiles ==
  /\ listReqs < MaxList
  /\ dashLoading' = TRUE
  /\ listReqs' = listReqs + 1

\* getFiles resolves (Dashboard.jsx 52-53, 55).
ListOk(fo, fi) ==
  /\ dashMounted /\ listReqs > 0
  /\ folders' = fo
  /\ files' = fi
  /\ dashLoading' = FALSE
  /\ listReqs' = listReqs - 1
  /\ dev' = DashEv("other")
  /\ UNCHANGED <<dashMounted, currentPath, search, fileType, sort, view, selected,
                 lastIdx, previewFile>>

\* A listing failure that asks again.
ListFail_Retries ==
  /\ dashMounted /\ listReqs > 0
  /\ dashLoading' = TRUE
  /\ dev' = DashEv("listFail")
  /\ UNCHANGED <<listReqs, folders, files, dashMounted, currentPath, search, fileType,
                 sort, view, selected, lastIdx, previewFile>>

\* getFiles rejects with a status other than 401 (Dashboard.jsx 54-55):
\* toast.error, setLoading(false).
ListFail ==
  /\ dashMounted /\ listReqs > 0
  /\ dashLoading' = FALSE
  /\ listReqs' = listReqs - 1
  /\ dev' = DashEv("listFail")
  /\ UNCHANGED <<folders, files, dashMounted, currentPath, search, fileType, sort, view,
                 selected, lastIdx, previewFile>>

\* getFiles is answered 401 (api.js 19-23, Dashboard.jsx 54-55): req clears the
\* session and reloads the page, the handler still runs its catch and finally;
\* the page load drops the Dashboard and its pending calls.
List401 ==
  /\ dashMounted /\ listReqs > 0
  /\ dashLoading' = FALSE
  /\ listReqs' = 0
  /\ dashMounted' = FALSE
  /\ dev' = DashEv("listFail")
  /\ UNCHANGED <<folders, files, currentPath, search, fileType, sort, view, selected,
                 lastIdx, previewFile>>

\* navigateTo (Dashboard.jsx 65-68) and the effects its state changes fire:
\* loadFiles when the path or the search changed (58), the selection reset when
\* the path changed (62).
NavigateTo(p) ==
  /\ search' = ""
  /\ currentPath' = p
  /\ IF p # currentPath
       THEN selected' = {} /\ lastIdx' = NoIdx
       ELSE UNCHANGED <<selected, lastIdx>>
  /\ IF p # currentPath \/ search # ""
       THEN LoadFiles
       ELSE UNCHANGED <<dashLoading, listReqs>>

\* A folder card or row is opened (Dashboard.jsx 311, 348), a breadcrumb is
\* clicked (254) or the logo is clicked (143).
OpenFolder(p) ==
  /\ PageReachable /\ ListingShown
  /\ \E i \in 1..Len(folders) : folders[i] = p
  /\ NavigateTo(p)
  /\ dev' = DashEv("navigate")
  /\ UNCHANGED <<dashMounted, folders, files, fileType, sort, view, previewFile>>

Breadcrumb(p) ==
  /\ PageReachable
  /\ p \in Breadcrumbs(currentPath)
  /\ NavigateTo(p)
  /\ dev' = DashEv("navigate")
  /\ UNCHANGED <<dashMounted, folders, files, fileType, sort, view, previewFile>>

\* The search box (Dashboard.jsx 154, 159).
SetSearch(s) ==
  /\ PageReachable /\ s # search
  /\ search' = s
  /\ LoadFiles
  /\ dev' = DashEv("other")
  /\ UNCHANGED <<dashMounted, currentPath, folders, files, fileType, sort, view, selected,
                 lastIdx, previewFile>>

\* The filter menu (Dashboard.jsx 184, 193).
SetFileType(t) ==
  /\ PageReachable /\ t # fileType
  /\ fileType' = t
  /\ LoadFiles
  /\ dev' = DashEv("other")
  /\ UNCHANGED <<dashMounted, currentPath, folders, files, search, sort, view, selected,
                 lastIdx, previewFile>>

SetSort(k) ==
  /\ PageReachable /\ k # sort
  /\ sort' = k
  /\ LoadFiles
  /\ dev' = DashEv("other")
  /\ UNCHANGED <<dashMounted, currentPath, folders, files, search, fileType, view,
                 selected, lastIdx, previewFile>>

\* The refresh button (Dashboard.jsx 168).
Refresh ==
  /\ PageReachable
  /\ LoadFiles
  /\ dev' = DashEv("other")
  /\ UNCHANGED <<dashMounted, currentPath, folders, files, search, fileType, sort, view,
                 selected, lastIdx, previewFile>>

\* The view toggle (Dashboard.jsx 205, 208).
SetView(v) ==
  /\ PageReachable /\ v # view
  /\ view' = v
  /\ dev' = DashEv("other")
  /\ UNCHANGED <<dashMounted, currentPath, folders, files, dashLoading, search, fileType,
                 sort, selected, lastIdx, previewFile, listReqs>>

Min(a, b) == IF a < b THEN a ELSE b
Max(a, b) == IF a < b THEN b ELSE a

\* The click events handleSelect sees: shiftKey, and ctrlKey || metaKey.
Clicks == [shiftKey : BOOLEAN, ctrlKey : BOOLEAN]

\* handleSelect(filePath, index, e) (Dashboard.jsx 83-96). The range loop reads
\* files[i].path: an index past the end of the array reads undefined.path, the
\* TypeError leaves the handler before lastIdx and the selection are set.
HandleSelect(index, e) ==
  /\ PageReachable /\ ListingShown
  /\ index \in 0..(Len(files) - 1)
  /\ LET filePath == FileAt(index).path
         a == Min(lastIdx, index)
         b == Max(lastIdx, index)
     IN IF e.shiftKey /\ lastIdx # NoIdx
          THEN IF b >= Len(files)
                 THEN /\ dev' = DashEv("selectThrew")
                      /\ UNCHANGED <<selected, lastIdx>>
                 ELSE /\ selected' = selected \cup {FileAt(i).path : i \in a..b}
                      /\ lastIdx' = index
                      /\ dev' = DashEv("shiftSelect")
          ELSE /\ selected' =
                    IF e.ctrlKey
                      THEN IF filePath \in selected THEN selected \ {filePath}
                                                    ELSE selected \cup {filePath}
                      ELSE IF filePath \in selected /\ Cardinality(selected) = 1
                             THEN {}
                             ELSE {filePath}
               /\ lastIdx' = index
               /\ dev' = DashEv("other")
  /\ UNCHANGED <<dashMounted, currentPath, folders, files, dashLoading, search, fileType,
                 sort, view, previewFile, listReqs>>

\* selectAll (Dashboard.jsx 98-101).
SelectAll ==
  IF Cardinality(selected) = Len(files) THEN {} ELSE FilePaths

\* A click on a card or row outside its checkbox, with no modifier and nothing
\* selected (FileCard.jsx 86-93, 175-179; Dashboard.jsx 326, 356).
OpenPreview(index) ==
  /\ PageReachable /\ ListingShown
  /\ index \in 0..(Len(files) - 1)
  /\ selected = {}
  /\ previewFile' = FileAt(index)
  /\ dev' = DashEv("other")
  /\ UNCHANGED <<dashMounted, currentPath, folders, files, dashLoading, search, fileType,
                 sort, view, selected, lastIdx, listReqs>>

\* An onClose that drops the selection with the preview.
ClosePreview_ClearsSelection ==
  /\ dashMounted /\ previewFile # NoPreview
  /\ previewFile' = NoPreview
  /\ selected' = {}
  /\ dev' = DashEv("closePreview")
  /\ UNCHANGED <<dashMounted, currentPath, folders, files, dashLoading, search, fileType,
                 sort, view, lastIdx, listReqs>>

\* onClose of the preview: its close button or a click on the overlay
\* (FilePreview.jsx 172, 176; Dashboard.jsx 385).
ClosePreview ==
  /\ dashMounted /\ previewFile # NoPreview
  /\ previewFile' = NoPreview
  /\ dev' = DashEv("closePreview")
  /\ UNCHANGED <<dashMounted, currentPath, folders, files, dashLoading, search, fileType,
                 sort, view, selected, lastIdx, listReqs>>

\* previewIdx (Dashboard.jsx 113): findIndex, -1 when the file is not listed.
PreviewIdx ==
  IF previewFile # NoPreview /\ \E i \in 0..(Len(files) - 1) : FileAt(i).path = previewFile.path
    THEN CHOOSE i \in 0..(Len(files) - 1) :
           /\ FileAt(i).path = previewFile.path
           /\ \A k \in 0..(i - 1) : FileAt(k).path # previewFile.path
    ELSE -1

\* files[i] as JavaScript reads it.
FileOrUndefined(i) == IF i \in 0..(Len(files) - 1) THEN FileAt(i) ELSE Undefined

\* A nextPreview without its bound check.
NextPreview_Unguarded == FileOrUndefined(PreviewIdx + 1)

\* prevPreview, nextPreview (Dashboard.jsx 114-115): the previewFile they leave.
PrevPreview == IF PreviewIdx > 0 THEN FileOrUndefined(PreviewIdx - 1) ELSE previewFile
NextPreview ==
  IF PreviewIdx < Len(files) - 1 THEN FileOrUndefined(PreviewIdx + 1) ELSE previewFile

\* The arrow buttons of the preview (FilePreview.jsx 193-202).
PreviewButton(dir) ==
  /\ dashMounted /\ previewFile # NoPreview
  /\ \/ dir = "prev" /\ PreviewIdx > 0 /\ previewFile' = PrevPreview
     \/ dir = "next" /\ PreviewIdx < Len(files) - 1 /\ previewFile' = NextPreview
  /\ dev' = DashEv("other")
  /\ UNCHANGED <<dashMounted, currentPath, folders, files, dashLoading, search, fileType,
                 sort, view, selected, lastIdx, listReqs>>

Keys == {"a", "Escape", "Backspace", "ArrowLeft", "ArrowRight"}
Targets == {"BODY", "INPUT", "TEXTAREA"}
\* The keydown events of the runs: the handlers read ctrlKey || metaKey for 'a'
\* alone (a plain 'a' reaches no handler), and tell an input or textarea from
\* any other target.
KeyEvents ==
  {e \in [key : Keys, ctrlKey : BOOLEAN, target : {"BODY", "INPUT"}] :
     e.ctrlKey <=> e.key = "a"}

\* FilePreview.handleKey (FilePreview.jsx 156-160), bound to document while a
\* preview is open: the previewFile it leaves.
PreviewAfterKey(e) ==
  IF previewFile = NoPreview THEN previewFile
  ELSE IF e.key = "Escape" THEN NoPreview
  ELSE IF e.key = "ArrowLeft" THEN PrevPreview
  ELSE IF e.key = "ArrowRight" THEN NextPreview
  ELSE previewFile

\* An Escape that spares the selection while a preview is open.
EscapeSelection_KeepsUnderPreview == IF previewFile # NoPreview THEN selected ELSE {}

\* setSelected(new Set()) of the Escape key (Dashboard.jsx 122).
EscapeSelection == {}

\* The Dashboard's keydown handler on window (Dashboard.jsx 118-131).
DashKey(e) ==
  IF e.target \in {"INPUT", "TEXTAREA"}
    THEN UNCHANGED <<currentPath, search, selected, lastIdx, dashLoading, listReqs>>
  ELSE IF e.ctrlKey /\ e.key = "a"
    THEN /\ selected' = SelectAll
         /\ UNCHANGED <<currentPath, search, lastIdx, dashLoading, listReqs>>
  ELSE IF e.key = "Escape"
    THEN /\ selected' = EscapeSelection
         /\ UNCHANGED <<currentPath, search, lastIdx, dashLoading, listReqs>>
  ELSE IF e.key = "Backspace" /\ currentPath # Root
    THEN NavigateTo(ParentPath(currentPath))
  ELSE UNCHANGED <<currentPath, search, selected, lastIdx, dashLoading, listReqs>>

\* The kind of a keydown event: an arrow key under an open preview, or a
\* shortcut the window listener did not leave to an input.
KeyEv(e) ==
  IF e.key \in {"ArrowLeft", "ArrowRight"}
    THEN DashEv(IF previewFile # NoPreview THEN e.key ELSE "other")
  ELSE IF e.target \in {"INPUT", "TEXTAREA"} THEN DashEv("other")
  ELSE IF e.key = "a" THEN DashEv(IF e.ctrlKey THEN "ctrlA" ELSE "other")
  ELSE IF e.key = "Escape"
    THEN [type |-> "Escape", pre |-> IF selected = {} THEN 0 ELSE 1]
  ELSE DashEv(e.key)

\* One keydown event: the document listener of an open preview, then the window
\* listener of the Dashboard.
KeyDown(e) ==
  /\ dashMounted
  /\ previewFile' = PreviewAfterKey(e)
  /\ DashKey(e)
  /\ dev' = KeyEv(e)
  /\ UNCHANGED <<dashMounted, folders, files, fileType, sort, view>>

DashNext ==
  \/ DashMount /\ UNCHANGED NotDash
  \/ \E fi \in FileLists : \E fo \in FolderLists(currentPath) :
       ListOk(fo, fi) /\ UNCHANGED NotDash
  \/ ListFail /\ UNCHANGED NotDash
  \/ List401 /\ UNCHANGED NotDash
  \/ \E p \in FolderPaths : OpenFolder(p) /\ UNCHANGED NotDash
  \/ \E p \in FolderPaths \cup {Root} : Breadcrumb(p) /\ UNCHANGED NotDash
  \/ \E s \in Searches : SetSearch(s) /\ UNCHANGED NotDash
  \/ \E t \in FileTypes : SetFileType(t) /\ UNCHANGED NotDash
  \/ \E k \in Sorts : SetSort(k) /\ UNCHANGED NotDash
  \/ Refresh /\ UNCHANGED NotDash
  \/ \E i \in 0..(Len(files) - 1), e \in Clicks : HandleSelect(i, e) /\ UNCHANGED NotDash
  \/ \E i \in 0..(Len(files) - 1) : OpenPreview(i) /\ UNCHANGED NotDash
  \/ ClosePreview /\ UNCHANGED NotDash
  \/ \E dir \in {"prev", "next"} : PreviewButton(dir) /\ UNCHANGED NotDash
  \/ \E e \in KeyEvents : KeyDown(e) /\ UNCHANGED NotDash

\* ---------------------------------------------------------------- the getFiles calls

\* The query loadFiles sends: api.getFiles({path, search, file_type, sort})
\* (Dashboard.jsx 51).
Query == [path |-> currentPath, search |-> search, file_type |-> fileType, sort |-> sort]
\* No answer has been shown yet.
NoQuery == [path |-> <<>>, search |-> "none", file_type |-> "none", sort |-> "none"]

\* The first call of the mount effect (line 58) is out.
ReqInit ==
  /\ pendingQ = <<Query>>
  /\ shownQuery = NoQuery
  /\ latestOutcome = "pending"

\* The sequence q without its i-th element.
Without(q, i) == SubSeq(q, 1, i - 1) \o SubSeq(q, i + 1, Len(q))

\* The i-th pending call is the most recent one.
IsLatest(i) == i = Len(pendingQ) /\ latestOutcome = "pending"

\* A step of the Dashboard that may have called loadFiles: the call carries the
\* state the effect of line 58 saw (the closure of lines 48-56).
TrackLoad ==
  IF listReqs' = listReqs + 1
    THEN /\ pendingQ' = Append(pendingQ, Query')
         /\ latestOutcome' = "pending"
         /\ UNCHANGED shownQuery
    ELSE UNCHANGED reqVars

\* The Dashboard mounts: its first call is out.
MountLoad ==
  /\ DashMount
  /\ pendingQ' = <<Query'>>
  /\ shownQuery' = NoQuery
  /\ latestOutcome' = "pending"

\* The i-th pending call resolves with (fo, fi): whichever call it is, its
\* continuation sets folders and files (Dashboard.jsx 51-53, 55); the calls
\* settle in any order.
ListOkOf(i, fo, fi) ==
  /\ i \in 1..Len(pendingQ)
  /\ ListOk(fo, fi)
  /\ pendingQ' = Without(pendingQ, i)
  /\ shownQuery' = pendingQ[i]
  /\ latestOutcome' = IF IsLatest(i) THEN "ok" ELSE latestOutcome

\* The i-th pending call rejects (Dashboard.jsx 54-55).
ListFailOf(i) ==
  /\ i \in 1..Len(pendingQ)
  /\ ListFail
  /\ pendingQ' = Without(pendingQ, i)
  /\ latestOutcome' = IF IsLatest(i) THEN "fail" ELSE latestOutcome
  /\ UNCHANGED shownQuery

\* A pending call is answered 401: the page load drops the others.
List401Of(i) ==
  /\ i \in 1..Len(pendingQ)
  /\ List401
  /\ pendingQ' = <<>>
  /\ latestOutcome' = "fail"
  /\ UNCHANGED shownQuery

\* The runs of the calls: navigation, the search box and the refresh button
\* (the filter and the sort menus call loadFiles the way the search box does).
ListingNext ==
  \/ MountLoad /\ UNCHANGED NotListing
  \/ \E i \in 1..Len(pendingQ) : \E fi \in FileLists : \E fo \in FolderLists(pendingQ[i].path) :
       ListOkOf(i, fo, fi) /\ UNCHANGED NotListing
  \/ \E i \in 1..Len(pendingQ) : ListFailOf(i) /\ UNCHANGED NotListing
  \/ \E i \in 1..Len(pendingQ) : List401Of(i) /\ UNCHANGED NotListing
  \/ \E p \in FolderPaths : OpenFolder(p) /\ TrackLoad /\ UNCHANGED NotListing
  \/ \E p \in FolderPaths \cup {Root} : Breadcrumb(p) /\ TrackLoad /\ UNCHANGED NotListing
  \/ \E s \in Searches : SetSearch(s) /\ TrackLoad /\ UNCHANGED NotListing
  \/ Refresh /\ TrackLoad /\ UNCHANGED NotListing
  \/ \E e \in KeyEvents :
       e.key = "Backspace" /\ KeyDown(e) /\ TrackLoad /\ UNCHANGED NotListing

\* ---------------------------------------------------------------- the rendered listing

FolderRowOf(p, comp) == [kind |-> "folder", comp |-> comp, path |-> p, index |-> NoIdx]
FileRowOf(f, i, comp) == [kind |-> "file", comp |-> comp, path |-> f.path, index |-> i]

\* A listing rendered as one list, the index of a row counting folders too.
RenderRows_OneList(v) ==
  IF ~ListingShown THEN <<>>
  ELSE [k \in 1..(Len(folders) + Len(files)) |->
          IF k <= Len(files)
            THEN FileRowOf(files[k], k - 1, "FileRow")
            ELSE FolderRowOf(folders[k - Len(files)], "FolderRow")]

\* The cards or rows of the main area in document order, each file with the
\* index its onSelect passes to handleSelect (Dashboard.jsx 303-361): in the
\* grid the folder section then the file section, in the list the folder rows
\* then the file rows.
RenderRows(v) ==
  IF ~ListingShown THEN <<>>
  ELSE IF v = "grid"
    THEN [k \in 1..Len(folders) |-> FolderRowOf(folders[k], "FolderCard")]
         \o [k \in 1..Len(files) |-> FileRowOf(files[k], k - 1, "FileCard")]
    ELSE [k \in 1..Len(folders) |-> FolderRowOf(folders[k], "FolderRow")]
         \o [k \in 1..Len(files) |-> FileRowOf(files[k], k - 1, "FileRow")]

\* ================================================================ FileCard / FileRow

\* The file lists of the runs that look at the cards: two images, a video and
\* a file of another type.
CardLists == {<<>>, <<FileD>>, <<FileA, FileD>>, <<FileA, FileB, FileC, FileD>>}
AllFiles == {FileA, FileB, FileC, FileD}

CardsInit ==
  /\ thumbErr = {}
  /\ thumbFetched = {}

\* A card that shows a thumbnail for every type of file.
ShowThumb_AnyType(f) == f.path \notin thumbErr

\* showThumb = isImg && !thumbErr (FileCard.jsx 79-81; FileRow: 169, 192).
ShowThumb(f) == f.file_type = "image" /\ f.path \notin thumbErr

\* What the thumbnail area of a card or row shows (FileCard.jsx 102-126,
\* 192-198).
CardShows(f) ==
  IF ShowThumb(f) THEN "thumbnail"
  ELSE IF f.file_type = "video" THEN "play icon"
  ELSE "type icon"

\* The files whose card or row is on the page.
ShownFiles == IF ListingShown THEN {files[i] : i \in 1..Len(files)} ELSE {}

\* An error flag that all cards share.
ThumbErrAfter_Shared(p) == {f.path : f \in ShownFiles}

\* setThumbErr(true) of the card of p (FileCard.jsx 76, 107; 168, 193).
ThumbErrAfter(p) == thumbErr \cup {p}

\* The <img> of a card starts to load its src, api.thumbnailUrl(file.path)
\* (FileCard.jsx 103-109, 193).
ThumbFetch(f) ==
  /\ f \in ShownFiles /\ ShowThumb(f)
  /\ thumbFetched' = thumbFetched \cup {f.path}
  /\ UNCHANGED <<thumbErr, dashVars>>

\* The <img> of a card raises 'error' (FileCard.jsx 107, 193).
ThumbError(f) ==
  /\ f \in ShownFiles /\ ShowThumb(f)
  /\ f.path \in thumbFetched
  /\ thumbErr' = ThumbErrAfter(f.path)
  /\ UNCHANGED <<thumbFetched, dashVars>>

\* A step of the Dashboard seen from the cards: a card keeps its state while
\* it stays on the page under the same key and component (Dashboard.jsx
\* 321-329, 351-359); a card that leaves the page loses it.
CardsKept ==
  /\ thumbErr' = {p \in thumbErr :
                    /\ ListingShown /\ (dashMounted' /\ ~dashLoading')
                    /\ view' = view
                    /\ \E i \in 1..Len(files') : files'[i].path = p}
  /\ UNCHANGED thumbFetched

CardsNext ==
  \/ \E fi \in CardLists : \E fo \in FolderLists(currentPath) :
       ListOk(fo, fi) /\ CardsKept /\ UNCHANGED NotCards
  \/ ListFail /\ CardsKept /\ UNCHANGED NotCards
  \/ Refresh /\ CardsKept /\ UNCHANGED NotCards
  \/ \E v \in Views : SetView(v) /\ CardsKept /\ UNCHANGED NotCards
  \/ \E i \in 0..(Len(files) - 1) :
       HandleSelect(i, [shiftKey |-> FALSE, ctrlKey |-> TRUE]) /\ CardsKept
       /\ UNCHANGED NotCards
  \/ \E f \in AllFiles : ThumbFetch(f) /\ UNCHANGED NotCards
  \/ \E f \in AllFiles : ThumbError(f) /\ UNCHANGED NotCards

\* ================================================================ user menu / UserModal

\* user.role of the user records the server sends (Dashboard.jsx 228-230).
RoleOfUser(u) == IF u = None THEN None ELSE IF u = "admin" THEN "admin" ELSE "viewer"

\* The user-management requests of the api object (api.js 44-48).
NoUmReq == [req |-> "none", role |-> None]
UmReq(r) == [req |-> r, role |-> RoleOfUser(appUser)]

UmInit ==
  /\ userMenu = FALSE
  /\ showUsers = FALSE
  /\ userOps = 0
  /\ umListReqs = 0
  /\ umLoaded = FALSE
  /\ umLast = NoUmReq

\* A page load or a Dashboard that leaves the page: its menu and modal go; a
\* page load also drops the calls in flight.
UmReset ==
  /\ userMenu' = FALSE
  /\ showUsers' = FALSE
  /\ userOps' = 0
  /\ umListReqs' = 0
  /\ umLoaded' = FALSE
  /\ UNCHANGED umLast

\* The avatar button (Dashboard.jsx 215) and the backdrop of the open menu (224).
ToggleUserMenu ==
  /\ Screen = "dashboard" /\ ~showUsers
  /\ userMenu' = ~userMenu
  /\ UNCHANGED <<showUsers, userOps, umListReqs, umLoaded, umLast, appVars>>

\* A menu that offers Manage Users to every user.
CanManage_Anyone(u) == TRUE

\* user.role === 'admin' (Dashboard.jsx 230).
CanManage(u) == RoleOfUser(u) = "admin"

\* load of the UserModal up to its await (Dashboard.jsx 408-409): api.getUsers.
LoadUsers ==
  /\ umListReqs' = Min(umListReqs + 1, MaxUserOps)
  /\ umLast' = UmReq("list-users")

\* Manage Users (Dashboard.jsx 231): the modal mounts and its effect calls
\* load (413).
ManageUsers ==
  /\ Screen = "dashboard" /\ userMenu /\ CanManage(appUser)
  /\ userMenu' = FALSE
  /\ showUsers' = TRUE
  /\ umLoaded' = FALSE
  /\ LoadUsers
  /\ UNCHANGED <<userOps, appVars>>

\* The modal is closed (Dashboard.jsx 392, 435, 442).
CloseUsers ==
  /\ showUsers
  /\ showUsers' = FALSE
  /\ umLoaded' = FALSE
  /\ UNCHANGED <<userMenu, userOps, umListReqs, umLast, appVars>>

\* The form is submitted with a name and a password (Dashboard.jsx 415-420),
\* or a listed user's delete is confirmed (428-430): the call goes out.
UserOp(r) ==
  /\ showUsers
  /\ r = "delete-user" => umLoaded
  /\ userOps < MaxUserOps
  /\ userOps' = userOps + 1
  /\ umLast' = UmReq(r)
  /\ UNCHANGED <<userMenu, showUsers, umListReqs, umLoaded, appVars>>

\* createUser or deleteUser resolves (Dashboard.jsx 421-423, 430): the
\* continuation calls load(), whatever has become of the modal.
UserOpOk ==
  /\ userOps > 0
  /\ userOps' = userOps - 1
  /\ LoadUsers
  /\ UNCHANGED <<userMenu, showUsers, umLoaded, appVars>>

\* It rejects with a status other than 401 (Dashboard.jsx 424, 431).
UserOpFail ==
  /\ userOps > 0
  /\ userOps' = userOps - 1
  /\ UNCHANGED <<userMenu, showUsers, umListReqs, umLoaded, umLast, appVars>>

\* getUsers resolves (Dashboard.jsx 409, 411); deletable: the list holds a
\* user that is not an admin (462).
UsersListOk(deletable) ==
  /\ umListReqs > 0
  /\ umListReqs' = umListReqs - 1
  /\ umLoaded' = (showUsers /\ deletable)
  /\ UNCHANGED <<userMenu, showUsers, userOps, umLast, appVars>>

UsersListFail ==
  /\ umListReqs > 0
  /\ umListReqs' = umListReqs - 1
  /\ UNCHANGED <<userMenu, showUsers, userOps, umLoaded, umLast, appVars>>

\* One of these calls is answered 401 (api.js 19-23): the session is cleared
\* and the page loads again.
UserCall401 ==
  /\ userOps > 0 \/ umListReqs > 0
  /\ Boot(ClearAuth)
  /\ aev' = AppEv("api401")
  /\ UmReset

\* Sign Out of the user menu (Dashboard.jsx 236): the Dashboard leaves the
\* page, the calls in flight stay in flight.
SignOut ==
  /\ userMenu
  /\ Logout
  /\ userMenu' = FALSE
  /\ UNCHANGED <<showUsers, userOps, umListReqs, umLoaded, umLast>>

UsersNext ==
  \/ Reload /\ UmReset /\ UNCHANGED NotUsers
  \/ \E u \in Users : MeOk(u) /\ UNCHANGED umVars /\ UNCHANGED NotUsers
  \/ Me401 /\ UmReset /\ UNCHANGED NotUsers
  \/ MeFail /\ UNCHANGED umVars /\ UNCHANGED NotUsers
  \/ LoginSubmit /\ UNCHANGED umVars /\ UNCHANGED NotUsers
  \/ \E t \in Tokens, u \in Users : LoginOk(t, u) /\ UNCHANGED umVars /\ UNCHANGED NotUsers
  \/ Login401 /\ UmReset /\ UNCHANGED NotUsers
  \/ LoginFail /\ UNCHANGED umVars /\ UNCHANGED NotUsers
  \/ ToggleUserMenu /\ UNCHANGED NotUsers
  \/ ManageUsers /\ UNCHANGED NotUsers
  \/ CloseUsers /\ UNCHANGED NotUsers
  \/ \E r \in {"create-user", "delete-user"} : UserOp(r) /\ UNCHANGED NotUsers
  \/ UserOpOk /\ UNCHANGED NotUsers
  \/ UserOpFail /\ UNCHANGED NotUsers
  \/ \E deletable \in BOOLEAN : UsersListOk(deletable) /\ UNCHANGED NotUsers
  \/ UsersListFail /\ UNCHANGED NotUsers
  \/ UserCall401 /\ UNCHANGED NotUsers
  \/ SignOut /\ UNCHANGED NotUsers

\* ================================================================ specifications

\* The Dashboard, its cards and its user menu at rest.
ClientIdle == DashInit /\ CardsInit /\ UmInit /\ ReqInit

Init == PlayerInit /\ AppIdle /\ ThumbInit /\ SrvIdle /\ XcInit /\ ClientIdle

InitApp == PlayerInit /\ AppInit /\ ThumbInit /\ SrvIdle /\ XcInit /\ ClientIdle

InitServer == PlayerInit /\ AppIdle /\ ThumbInit /\ SrvInit /\ XcInit /\ ClientIdle

SpecDash == Init /\ [][DashNext]_vars

SpecCards == Init /\ [][CardsNext]_vars

SpecUsers == InitApp /\ [][UsersNext]_vars

SpecListing == Init /\ [][ListingNext]_vars

SpecPlayer == Init /\ [][PlayerNext]_vars

SpecApp == InitApp /\ [][AppNext]_vars

SpecThumb == Init /\ [][ThumbNext]_vars

SpecServer == InitServer /\ [][SrvNext]_vars

\* The server runs its disconnect handler: a kill that stays possible happens.
SpecTranscode ==
  /\ Init
  /\ [][XcNext]_vars
  /\ \A s \in Slots : WF_xcVars(KillOnDisconnect(s))

\* ================================================================ claims: VideoPlayer

\* The step just taken handled a probe that settled with the server's JSON.
ProbeOkStep == ev'.type = "probe" /\ ev'.kind = "ok"

\* C1 (as claimed): a step that handles a probe reporting ffmpeg_available =
\* false never switches the player to the compat source, whatever
\* needs_transcode is.
C1_NoCompatWithoutFfmpeg ==
  [][(ProbeOkStep /\ ~ev'.ffmpeg_available) => (useCompat' => useCompat)]_vars

\* C2 (as claimed): a probe is issued, and a compat URL is rendered, only for
\* a path whose video element has raised a playback error before.
C2_ProbeAndCompatOnlyAfterError ==
  /\ probedFiles \subseteq erroredFiles
  /\ compatFiles \subseteq erroredFiles

\* C3: the status is one of loading, playing, transcoding, error and starts at
\* loading for every previewed file; at most one probe is issued per previewed
\* file; a playback error raised when the fallback was already attempted sets
\* status 'error', issues no probe and leaves the source (useCompat) alone;
\* and once on the compat source the player stays on it for that file.
C3_FallbackAtMostOnce ==
  /\ [](status \in {"loading", "playing", "transcoding", "error"} /\ probesThisFile <= 1)
  /\ [][ev'.type \in {"mount", "file"} => status' = "loading"]_vars
  /\ [][(ev'.type = "error" /\ triedCompat) =>
          /\ status' = "error"
          /\ probes' = probes /\ probedFiles' = probedFiles
          /\ probesThisFile' = probesThisFile
          /\ useCompat' = useCompat]_vars
  /\ [][(useCompat /\ mounted' /\ file' = file) => useCompat']_vars

\* C3 witness: an error after the fallback was attempted has put the player,
\* already on the compat source, in 'error'.
C3_Witness ==
  /\ ev.type = "error" /\ status = "error" /\ errorMsg = GenericMsg
  /\ useCompat /\ triedCompat /\ probesThisFile = 1

C5_OneGenerationSharedResult ==
  /\ \A k \in ThumbKeys : Cardinality({j \in thumbJobs : j.key = k}) <= 1
  /\ \A r \in ThumbReqIds : thumbReq[r].st = "waiting" =>
       \E j \in thumbJobs : j.id = thumbReq[r].job /\ j.key = thumbReq[r].key
  /\ \A r1, r2 \in ThumbReqIds :
       (thumbReq[r1].st = "waiting" /\ thumbReq[r2].st = "waiting"
        /\ thumbReq[r1].key = thumbReq[r2].key) => thumbReq[r1].job = thumbReq[r2].job
  /\ \A r1, r2 \in ThumbReqIds :
       (thumbReq[r1].st = "done" /\ thumbReq[r2].st = "done"
        /\ thumbReq[r1].job # 0 /\ thumbReq[r1].job = thumbReq[r2].job) =>
          /\ thumbReq[r1].resp = thumbReq[r2].resp
          /\ thumbReq[r1].resp \in {ThumbBytes(thumbReq[r1].key), ThumbnailUnavailable}

\* C5 witness: three concurrent calls for one key were all served by the one
\* generation that ran, with the same bytes.
C5_Witness ==
  /\ thumbRuns = 1
  /\ \A r \in ThumbReqIds :
       /\ thumbReq[r].st = "done" /\ thumbReq[r].job = 1
       /\ thumbReq[r].resp = ThumbBytes(thumbReq[r].key)
  /\ \E r1, r2 \in ThumbReqIds : r1 # r2

\* The last request was made with a token that verifies, to an endpoint that
\* consumes paths, and one of its paths really lies outside MediaRoot.
EscapingRequest ==
  /\ srvResp.token.kind = "valid"
  /\ srvResp.endpoint \in PathEndpoints \cup {BulkEndpoint}
  /\ \E i \in 1..Len(srvResp.paths) : ~Contained(RealTarget(srvResp.paths[i]))

C7_DisconnectEndsTranscode ==
  /\ [](\A s \in Slots : streams[s].proc => streams[s].st = "transcoding")
  /\ \A s \in Slots : (streams[s].proc /\ ~streams[s].live) ~> ~streams[s].proc

\* C7 witness: a transcode was killed after its client disconnected.
C7_Witness ==
  \E s \in Slots : streams[s].end = "killed" /\ ~streams[s].proc /\ ~streams[s].live

\* C8: a token that is missing, malformed or expired gets Unauthorized; a
\* token that verifies with a role below the endpoint's minimum gets
\* Forbidden; Unauthorized is never the answer to a token that verifies, and
\* Forbidden never the answer to one that does not.
C8_UnauthorizedVsForbidden ==
  srvResp # NoAnswer =>
    /\ srvResp.token.kind \in {"missing", "malformed", "expired"} =>
         srvResp.status = "Unauthorized"
    /\ (srvResp.token.kind = "valid"
        /\ RoleRank[srvResp.token.role] < RoleRank[MinRole[srvResp.endpoint]]) =>
         srvResp.status = "Forbidden"
    /\ srvResp.status = "Unauthorized" => srvResp.token.kind # "valid"
    /\ srvResp.status = "Forbidden" => srvResp.token.kind = "valid"

\* C8 witness: an editor's valid token was refused on an admin endpoint.
C8_Witness ==
  /\ srvResp.endpoint = "create-user"
  /\ srvResp.token = [kind |-> "valid", role |-> "editor"]
  /\ srvResp.status = "Forbidden"

\* ================================================================ claims: App

\* C9: a login answered 401 leaves neither token nor user in the storage and
\* the app on the Login screen; a login answered with {access_token, user}
\* stores that token and that user and puts the app on the Dashboard as that
\* user.
C9_LoginOutcome ==
  /\ [][aev'.type = "login401" =>
          /\ lsToken' = None /\ lsUser' = None /\ appUser' = None
          /\ ScreenOf(appLoading', appUser') = "login"]_vars
  /\ [][aev'.type = "loginOk" =>
          /\ lsToken' = aev'.token /\ lsUser' = aev'.user /\ appUser' = aev'.user
          /\ ScreenOf(appLoading', appUser') = "dashboard"]_vars

\* C9 witness: a login has succeeded; its token and user are stored and the
\* Dashboard shows.
C9_Witness ==
  /\ aev.type = "loginOk" /\ lsToken = aev.token /\ lsUser = aev.user
  /\ Screen = "dashboard"

\* C10: while the startup getMe is pending the Dashboard is not rendered; when
\* it fails (401 or otherwise) the stored token and user are gone, user is null
\* and the Login screen shows.
C10_StartupCheck ==
  /\ [](meReq => Screen # "dashboard")
  /\ [][aev'.type \in {"me401", "meFail"} =>
          /\ lsToken' = None /\ lsUser' = None /\ appUser' = None
          /\ ScreenOf(appLoading', appUser') = "login"]_vars

\* C10 witness: the startup check has failed and the Login screen shows.
C10_Witness ==
  /\ aev.type \in {"me401", "meFail"}
  /\ lsToken = None /\ lsUser = None /\ Screen = "login"

\* ================================================================ claims: cards and rows

\* C11: a thumbnail load failure switches only the failing file's card or row
\* to the icon fallback. In every step in which some card starts to show the
\* fallback, exactly one card does, no card leaves it, and the folders, the
\* files, the selection and the loading flag are as before.
C11_ThumbFailureIsLocal ==
  [][(thumbErr' \ thumbErr # {}) =>
       /\ Cardinality(thumbErr' \ thumbErr) = 1
       /\ thumbErr \subseteq thumbErr'
       /\ \A f \in ShownFiles : f.path \notin thumbErr' => f.path \notin thumbErr
       /\ UNCHANGED <<folders, files, selected, dashLoading>>]_vars

\* One of two image cards shows the fallback, the other its thumbnail, with a
\* file selected.
C11_Witness ==
  /\ FileA \in ShownFiles /\ FileD \in ShownFiles
  /\ FileA.path \in thumbErr /\ ShowThumb(FileD)
  /\ selected # {}

TypeOfPath(p) == (CHOOSE f \in AllFiles : f.path = p).file_type

\* C19: a thumbnail is requested for image entries only; the card or row of a
\* video or of any other file shows an icon and never issues a thumbnail
\* request.
C19_ThumbnailsForImagesOnly ==
  /\ \A p \in thumbFetched : TypeOfPath(p) = "image"
  /\ \A f \in ShownFiles :
       f.file_type # "image" => CardShows(f) \in {"play icon", "type icon"}

\* A listing with a video and a file of another type on the page, after the
\* thumbnail of an image was requested.
C19_Witness ==
  /\ FileA.path \in thumbFetched
  /\ FileB \in ShownFiles /\ FileC \in ShownFiles

\* ================================================================ claims: Dashboard

\* C12: a failed listing request is surfaced and not retried. The step that
\* handles the failure leaves folders and files as they were, sets loading to
\* false and issues no request; and a listing request is issued only in a step
\* that changes the path, the search, the filter or the sort, in a refresh, or
\* when the Dashboard mounts.
C12_ListFailureNotRetried ==
  [][/\ dev'.type = "listFail" =>
          /\ folders' = folders /\ files' = files
          /\ dashLoading' = FALSE
          /\ listReqs' < listReqs
     /\ listReqs' > listReqs =>
          \/ currentPath' # currentPath \/ search' # search
          \/ fileType' # fileType \/ sort' # sort
          \/ Refresh
          \/ DashMount]_vars

\* A failure was handled over a listing that shows files; nothing is in
\* flight.
C12_Witness ==
  /\ dashMounted /\ dev.type = "listFail"
  /\ Len(files) > 0 /\ ~dashLoading /\ listReqs = 0

\* C13: in grid and in list view, whatever the search, filter and sort, every
\* folder is rendered before every file, all entries are rendered, and the
\* index a file's onSelect passes on is its index in files.
C13_FoldersBeforeFiles ==
  \A v \in Views :
    LET rows == RenderRows(v)
    IN /\ \A a, b \in 1..Len(rows) :
            a < b => ~(rows[a].kind = "file" /\ rows[b].kind = "folder")
       /\ \A a \in 1..Len(rows) :
            rows[a].kind = "file" =>
              /\ rows[a].index \in 0..(Len(files) - 1)
              /\ FileAt(rows[a].index).path = rows[a].path
       /\ ListingShown => Len(rows) = Len(folders) + Len(files)

\* A listing with a folder and several files under a search, a filter and a
\* sort other than the defaults.
C13_Witness ==
  /\ ListingShown /\ Len(folders) > 0 /\ Len(files) > 1
  /\ search = "x" /\ fileType = "image" /\ sort = "size"

\* C14: after Ctrl+A (or Cmd+A) outside an input or textarea the selection is
\* the set of the paths of all files of the listing.
C14_CtrlASelectsAll ==
  dev.type = "ctrlA" => selected = FilePaths

\* C15: a shift+click at index j with the anchor i set adds exactly the files
\* at the indices min(i,j)..max(i,j) of the listing to the selection and
\* removes none.
C15_ShiftClickAddsRange ==
  [][(dev'.type \in {"shiftSelect", "selectThrew"} /\ lastIdx # NoIdx) =>
       \E j \in 0..(Len(files) - 1) :
         selected' = selected \cup
           {FileAt(k).path : k \in {m \in Min(lastIdx, j)..Max(lastIdx, j) : m < Len(files)}}]_vars

\* C16: after an Escape outside an input or textarea the selection is empty,
\* in every state of the Dashboard.
C16_EscapeClearsSelection ==
  dev.type = "Escape" => selected = {}

\* An Escape came while files were selected.
C16_Witness ==
  /\ dashMounted /\ dev = [type |-> "Escape", pre |-> 1]
  /\ selected = {}

\* The path with its last segment removed, '/' for a top-level folder.
LastSlash(p) == CHOOSE i \in 1..Len(p) : p[i] = "/" /\ \A k \in (i + 1)..Len(p) : p[k] # "/"
WithoutLastSegment(p) == IF LastSlash(p) = 1 THEN Root ELSE SubSeq(p, 1, LastSlash(p) - 1)

\* C17: a Backspace outside an input or textarea at a path other than '/' sets
\* the current path to its parent; at '/' it changes nothing; the current path
\* is always '/' or a folder below it.
C17_BackspaceGoesToParent ==
  [][/\ currentPath' \in FolderPaths \cup {Root}
     /\ dev'.type = "Backspace" =>
          IF currentPath = Root
            THEN UNCHANGED <<currentPath, folders, files, dashLoading, search, fileType,
                             sort, view, selected, lastIdx, listReqs>>
            ELSE currentPath' = WithoutLastSegment(currentPath)]_vars

\* A Backspace took the Dashboard from a folder of depth two to its parent.
C17_Witness ==
  /\ dashMounted /\ dev.type = "Backspace"
  /\ currentPath # Root /\ Depth(currentPath) = 1

\* C18: with a preview open on a file of the listing, ArrowLeft and ArrowRight
\* move it to the previous and the next file, ArrowLeft at the first file and
\* ArrowRight at the last leave it; the previewed file is never an undefined
\* entry.
C18_ArrowsStayInListing ==
  [][/\ previewFile' # Undefined
     /\ (dev'.type = "ArrowLeft" /\ PreviewIdx >= 0) =>
          previewFile' = IF PreviewIdx = 0 THEN previewFile ELSE FileAt(PreviewIdx - 1)
     /\ (dev'.type = "ArrowRight" /\ PreviewIdx >= 0) =>
          previewFile' = IF PreviewIdx = Len(files) - 1 THEN previewFile
                         ELSE FileAt(PreviewIdx + 1)]_vars

\* ArrowRight was pressed and the preview shows the last of three files.
C18_Witness ==
  /\ dashMounted /\ dev.type = "ArrowRight"
  /\ Len(files) = 3 /\ previewFile = FileAt(2)

\* ================================================================ claims: user management

\* C20: the user-management modal is open, and list-users, create-user and
\* delete-user requests go out, only while the logged-in user's role is admin.
C20_UserManagementAdminOnly ==
  /\ showUsers => Screen = "dashboard" /\ RoleOfUser(appUser) = "admin"
  /\ umLast.req # "none" => umLast.role = "admin"

\* ---------------------------------------------------------------- C23
\* C23: a video-info probe response that arrives after the previewed file has
\* changed does not alter the player state of the new file: the step that
\* handles the response to a probe of another path leaves status, useCompat and
\* errorMsg as they were.
C23_StaleProbeIgnored ==
  [][(ev'.type = "probe" /\ ev'.file # file')
       => UNCHANGED <<status, useCompat, errorMsg>>]_vars

\* ---------------------------------------------------------------- C28
\* C28: in every state of the player, status 'transcoding' implies that
\* useCompat is true, and a 'waiting' media event never moves the player out of
\* 'transcoding'.
C28_TranscodingUsesCompat ==
  /\ [](status = "transcoding" => useCompat)
  /\ [][(ev'.type = "waiting" /\ status = "transcoding")
          => status' = "transcoding"]_vars

\* A 'waiting' event was handled while the compat stream was being converted.
C28_Witness ==
  /\ mounted
  /\ ev.type = "waiting"
  /\ status = "transcoding"
  /\ useCompat

\* ---------------------------------------------------------------- C26
\* C26: every API call of the client that sends the bearer token and is
\* answered 401 removes the stored token and the stored user, bulkDownload
\* included: after the step that handles a 401, the storage holds neither.
C26_Every401ClearsSession ==
  aev.type \in {"me401", "login401", "api401", "bulk401"}
    => lsToken = None /\ lsUser = None

\* ---------------------------------------------------------------- C27
\* C27: after any sequence of login, logout, startup session check and 401
\* responses, a user is stored (fs_user) only if a token is stored (fs_token).
C27_UserOnlyWithToken ==
  lsUser # None => lsToken # None

\* A session was stored and the user signed out: both entries are gone.
C27_Witness ==
  /\ aev.type = "logout"
  /\ lsToken = None
  /\ lsUser = None
  /\ Screen = "login"

\* ================================================================ claims: navigation and selection state

\* C21: after any navigation action (navigateTo from a folder, a breadcrumb,
\* the logo or Backspace) the selection is empty and the shift-click anchor is
\* unset.
C21_NavigationClearsSelection ==
  [][(dev'.type = "navigate" \/ (dev'.type = "Backspace" /\ currentPath # Root))
       => selected' = {} /\ lastIdx' = NoIdx]_vars

\* C24: in every state of the Dashboard every selected path is the path of a
\* file of the displayed listing.
C24_SelectionIsListed ==
  dashMounted => selected \subseteq FilePaths

\* C25: whenever the shift-click anchor is set, it is an index of the displayed
\* file list.
C25_AnchorIsValidIndex ==
  (dashMounted /\ lastIdx # NoIdx) => lastIdx \in 0..(Len(files) - 1)

\* A step that closes the preview of a mounted Dashboard.
ClosesPreview ==
  /\ dashMounted /\ dashMounted'
  /\ previewFile # NoPreview
  /\ previewFile' = NoPreview

\* C29 as stated: closing the preview by any means (close button, overlay,
\* Escape) leaves the selection, the current path and the listing unchanged.
C29_CloseChangesPreviewOnly ==
  [][ClosesPreview => UNCHANGED <<selected, currentPath, folders, files>>]_vars

\* C29 amended: closing the preview leaves the current path and the listing
\* unchanged; the close button and the overlay leave the selection unchanged
\* too, and an Escape outside an input or textarea empties it.
C29_CloseKeepsPathAndListing ==
  [][ClosesPreview =>
       /\ UNCHANGED <<currentPath, folders, files>>
       /\ selected' = IF dev'.type = "Escape" THEN {} ELSE selected]_vars

\* The preview was closed with its button over a selection, which is kept.
C29_Witness ==
  /\ dashMounted
  /\ dev.type = "closePreview"
  /\ previewFile = NoPreview
  /\ selected # {}

\* ---------------------------------------------------------------- C22
\* C22: once no listing request is outstanding, the displayed folders and files
\* are the response to the most recently issued request, the one for the
\* current (path, search, file type, sort); a response to an earlier request
\* never overwrites the result of a later one.
C22_LatestListingShown ==
  (dashMounted /\ Len(pendingQ) = 0 /\ latestOutcome = "ok") => shownQuery = Query

====
